---- MODULE Spec2Model ----
(***************************************************************************)
(* Model of the spec-version write workflow of the OpenAlchemy package     *)
(* service: the endpoint handler put (api/library/specs/versions) and the  *)
(* metadata-store facade Database (open_alchemy/package_database/dynamodb) *)
(* it relies on for the free-tier check and the metadata write.            *)
(*                                                                         *)
(* Every put request is a sequential process of its own; requests of       *)
(* different callers interleave between their store accesses.  The blob    *)
(* store, the spec processor and the table model behind Database           *)
(* (models.Spec) are collaborators whose code is outside the modelled      *)
(* files; they are modelled by their documented contract.                  *)
(***************************************************************************)
EXTENDS Integers, Sequences, FiniteSets, TLC

\* ------------------------------------------------------------------ bounds
MaxPuts == 2
MaxModelCount == 3
MinCeiling == 2
MaxCeiling == 5

Customers == {"c1", "c2"}
SpecIds == {"s1", "s2"}
Versions == {"v1", "v2"}
Requests == 1..MaxPuts
ModelCounts == 1..MaxModelCount
Ceilings == {MinCeiling, MaxCeiling}
CountPolicies == {"latest", "all"}

\* Raw documents a caller can upload: one the spec processor rejects, and
\* the valid ones, which carry the version and the model count it derives.
InvalidBody == [valid |-> FALSE, version |-> "v1", model_count |-> 0]
Bodies ==
    {InvalidBody} \cup
    {[valid |-> TRUE, version |-> v, model_count |-> m] : v \in Versions, m \in ModelCounts}

VARIABLES
    blob,        \* blob store: (user, spec id, version) -> stored document
    meta,        \* metadata store: (sub, id, version) -> record
    latest,      \* metadata store: (sub, id) -> most recently written version
    ceiling,     \* config.get().free_tier_model_count
    countPolicy, \* which versions count_customer_models sums over
    reqs         \* the put requests: arguments, locals, position, response

vars == <<blob, meta, latest, ceiling, countPolicy, reqs>>
stores == <<blob, meta, latest>>

\* ----------------------------------------------------------------- helpers
RECURSIVE SumOf(_, _)
SumOf(f, S) ==
    IF S = {} THEN 0
    ELSE LET k == CHOOSE x \in S : TRUE IN f[k] + SumOf(f, S \ {k})

NoSpecInfo == [ok |-> FALSE, version |-> "", model_count |-> 0, spec_str |-> <<>>]
NoCheck == [result |-> FALSE, reason |-> <<>>]
NoSnapshot == [blob |-> <<>>, meta |-> <<>>, latest |-> <<>>]

IdleRequest ==
    [pc |-> "idle", user |-> "", spec_id |-> "", version |-> "", body |-> InvalidBody,
     spec_info |-> NoSpecInfo, free_tier_check |-> NoCheck,
     status |-> 0, outcome |-> "", text |-> <<>>,
     steps |-> <<>>,      \* history: the steps of put the request has run
     seen |-> {},         \* history: the requests already answered at its quota check
     pre |-> NoSnapshot]  \* history: the stores when the request was issued

\* ------------------------------------------------------ the spec processor
\* spec.process: validates the document and derives version and model count;
\* the canonical body it returns is not the raw body.
process(body) ==
    IF body.valid
    THEN [ok |-> TRUE, version |-> body.version, model_count |-> body.model_count,
          spec_str |-> <<"canonical", body.version, body.model_count>>]
    ELSE NoSpecInfo

\* ------------------------------------------------------------- blob store
\* storage facade create_update_spec: upsert under (user, spec id, version)
storage_create_update_spec(b, user, spec_id, version, spec_str) ==
    [k \in DOMAIN b \cup {<<user, spec_id, version>>} |->
        IF k = <<user, spec_id, version>> THEN spec_str ELSE b[k]]

\* --------------------------------------------------------- metadata store
\* models.Spec.create_update_item: upsert of the version record
create_update_item(m, sub, id_, version, model_count) ==
    [k \in DOMAIN m \cup {<<sub, id_, version>>} |->
        IF k = <<sub, id_, version>> THEN [model_count |-> model_count] ELSE m[k]]

\* models.Spec.create_update_item: the latest marker follows the write
update_latest(l, sub, id_, version) ==
    [k \in DOMAIN l \cup {<<sub, id_>>} |->
        IF k = <<sub, id_>> THEN version ELSE l[k]]

\* models.Spec.count_customer_models: the records that count toward the quota
CountedKeys(m, l, policy, sub) ==
    {k \in DOMAIN m :
        /\ k[1] = sub
        /\ policy = "latest" => (<<k[1], k[2]>> \in DOMAIN l /\ l[<<k[1], k[2]>>] = k[3])}

ModelsCounted(m, l, policy, sub) ==
    SumOf([k \in DOMAIN m |-> m[k].model_count], CountedKeys(m, l, policy, sub))

\* Database.count_customer_models
count_customer_models(sub) == ModelsCounted(meta, latest, countPolicy, sub)

\* Variants of the decision with a slip in the comparison or in the reason
FreeTierDecisionInclusive(current_count, model_count, free_tier_model_count) ==
    IF current_count + model_count >= free_tier_model_count
    THEN [result |-> TRUE, reason |-> <<free_tier_model_count, current_count, model_count>>]
    ELSE NoCheck

FreeTierDecisionSubtract(current_count, model_count, free_tier_model_count) ==
    IF current_count - model_count > free_tier_model_count
    THEN [result |-> TRUE, reason |-> <<free_tier_model_count, current_count, model_count>>]
    ELSE NoCheck

FreeTierDecisionOffByOne(current_count, model_count, free_tier_model_count) ==
    IF current_count + model_count > free_tier_model_count + 1
    THEN [result |-> TRUE, reason |-> <<free_tier_model_count, current_count, model_count>>]
    ELSE NoCheck

FreeTierDecisionSwapped(current_count, model_count, free_tier_model_count) ==
    IF current_count + model_count > free_tier_model_count
    THEN [result |-> TRUE, reason |-> <<free_tier_model_count, model_count, current_count>>]
    ELSE NoCheck

\* Database.check_would_exceed_free_tier, the decision on the values it read
FreeTierDecision(current_count, model_count, free_tier_model_count) ==
    IF current_count + model_count > free_tier_model_count
    THEN [result |-> TRUE, reason |-> <<free_tier_model_count, current_count, model_count>>]
    ELSE NoCheck

\* Database.check_would_exceed_free_tier
check_would_exceed_free_tier(sub, model_count) ==
    FreeTierDecision(count_customer_models(sub), model_count, ceiling)

\* Variant: the write adds to the stored model count instead of replacing it
create_update_spec_adding(sub, id_, version, model_count) ==
    /\ meta' = create_update_item(meta, sub, id_, version,
                   IF <<sub, id_, version>> \in DOMAIN meta
                   THEN meta[<<sub, id_, version>>].model_count + model_count
                   ELSE model_count)
    /\ latest' = update_latest(latest, sub, id_, version)

\* Variant: the latest marker only moves to a higher version
create_update_spec_highest(sub, id_, version, model_count) ==
    /\ meta' = create_update_item(meta, sub, id_, version, model_count)
    /\ latest' = IF <<sub, id_>> \in DOMAIN latest /\ latest[<<sub, id_>>] = "v2"
                 THEN latest
                 ELSE update_latest(latest, sub, id_, version)

\* Database.create_update_spec
create_update_spec(sub, id_, version, model_count) ==
    /\ meta' = create_update_item(meta, sub, id_, version, model_count)
    /\ latest' = update_latest(latest, sub, id_, version)

\* --------------------------------------------- metadata store: read, delete
\* models.Spec.list_versions: the version records of one spec id
list_versions(m, sub, id_) ==
    {[version |-> k[3], model_count |-> m[k].model_count] :
        k \in {x \in DOMAIN m : x[1] = sub /\ x[2] = id_}}

\* models.Spec.get_latest_version: NotFoundError without a latest item
get_latest_version(l, sub, id_) ==
    IF <<sub, id_>> \in DOMAIN l
    THEN [raised |-> "", value |-> l[<<sub, id_>>]]
    ELSE [raised |-> "NotFoundError", value |-> ""]

\* models.Spec.list_: one entry per spec id, taken from its latest item
list_(m, l, sub) ==
    {[spec_id |-> k[2], version |-> l[k], model_count |-> m[<<k[1], k[2], l[k]>>].model_count] :
        k \in {x \in DOMAIN l : x[1] = sub}}

\* models.Spec.delete_item: every item of the spec id, the latest item included
delete_item(m, sub, id_) ==
    [k \in {x \in DOMAIN m : ~(x[1] = sub /\ x[2] = id_)} |-> m[k]]

\* models.Spec.delete_all: every item of the customer
delete_all(m, sub) == [k \in {x \in DOMAIN m : x[1] # sub} |-> m[k]]

\* Variant: the removal matches the spec id under every customer
delete_item_any_customer(m, sub, id_) ==
    [k \in {x \in DOMAIN m : x[2] # id_} |-> m[k]]

\* Database.get_latest_spec_version
get_latest_spec_version(sub, id_) == get_latest_version(latest, sub, id_)

\* Database.list_specs
list_specs(sub) == list_(meta, latest, sub)

\* Variant: an empty result is returned instead of raising
list_spec_versions_empty(sub, id_) ==
    [raised |-> "", value |-> list_versions(meta, sub, id_)]

\* Database.list_spec_versions: NotFoundError when there is no version
list_spec_versions(sub, id_) ==
    LET spec_infos == list_versions(meta, sub, id_)
    IN IF spec_infos = {}
       THEN [raised |-> "NotFoundError", value |-> {}]
       ELSE [raised |-> "", value |-> spec_infos]

\* Variant: the delete of a spec id removes it under every customer
delete_spec_any_customer(sub, id_) ==
    /\ meta' = delete_item_any_customer(meta, sub, id_)
    /\ latest' = delete_item_any_customer(latest, sub, id_)

\* Variant: the delete of a spec id leaves its latest item behind
delete_spec_keeps_latest(sub, id_) ==
    /\ meta' = delete_item(meta, sub, id_)
    /\ latest' = latest

\* Variant: the delete fails when the spec id has no item
delete_spec_requires_item(sub, id_) ==
    /\ \E k \in DOMAIN meta : k[1] = sub /\ k[2] = id_
    /\ meta' = delete_item(meta, sub, id_)
    /\ latest' = delete_item(latest, sub, id_)

\* Database.delete_spec
delete_spec(sub, id_) ==
    /\ meta' = delete_item(meta, sub, id_)
    /\ latest' = delete_item(latest, sub, id_)

\* Database.delete_all_specs
delete_all_specs(sub) ==
    /\ meta' = delete_all(meta, sub)
    /\ latest' = delete_all(latest, sub)

\* ------------------------------------------------- blob store: read access
\* storage facade get_spec_versions: ObjectNotFoundError without a version
get_spec_versions(user, spec_id) ==
    LET versions == {k[3] : k \in {x \in DOMAIN blob : x[1] = user /\ x[2] = spec_id}}
    IN IF versions = {}
       THEN [raised |-> "ObjectNotFoundError", value |-> {}]
       ELSE [raised |-> "", value |-> versions]

\* storage facade get_spec: ObjectNotFoundError when the version is not stored
get_spec(user, spec_id, version) ==
    IF <<user, spec_id, version>> \in DOMAIN blob
    THEN [raised |-> "", value |-> blob[<<user, spec_id, version>>]]
    ELSE [raised |-> "ObjectNotFoundError", value |-> <<>>]

\* spec.prepare: the stored document with its version put back
prepare(spec_str, version) == <<"prepared", version>> \o spec_str

\* ------------------------------------------------------- read endpoints
Faults == {"", "StorageError"}

\* Variant: the not-found case is answered like a storage fault
versions_list_not_found_as_error(spec_id, user, fault) ==
    IF fault = "StorageError" \/ get_spec_versions(user, spec_id).raised # ""
    THEN [status |-> 500, body |-> {}]
    ELSE [status |-> 200, body |-> get_spec_versions(user, spec_id).value]

\* versions.list_: 200 with the versions, 404 not found, 500 storage error
versions_list(spec_id, user, fault) ==
    IF fault = "StorageError"
    THEN [status |-> 500, body |-> {}]
    ELSE IF get_spec_versions(user, spec_id).raised = "ObjectNotFoundError"
    THEN [status |-> 404, body |-> {}]
    ELSE [status |-> 200, body |-> get_spec_versions(user, spec_id).value]

\* versions.get: 200 with the prepared spec, 404 not found, 500 storage error
versions_get(spec_id, version, user, fault) ==
    IF fault = "StorageError"
    THEN [status |-> 500, body |-> <<>>]
    ELSE IF get_spec(user, spec_id, version).raised = "ObjectNotFoundError"
    THEN [status |-> 404, body |-> <<>>]
    ELSE [status |-> 200, body |-> prepare(get_spec(user, spec_id, version).value, version)]

\* ------------------------------------------------------------ put requests
Respond(r, req, status, outcome, text) ==
    reqs' = [reqs EXCEPT ![r] =
        [req EXCEPT !.pc = "done", !.status = status, !.outcome = outcome, !.text = text]]

Step(req, name) == [req EXCEPT !.steps = Append(@, name)]

\* A caller issues put(body, spec_id, version, user)
Begin(r) ==
    /\ reqs[r].pc = "idle"
    /\ r > 1 => reqs[r - 1].pc # "idle"
    /\ \E user \in Customers, spec_id \in SpecIds, version \in Versions, body \in Bodies :
        reqs' = [reqs EXCEPT ![r] =
            [IdleRequest EXCEPT !.pc = "process", !.user = user, !.spec_id = spec_id,
                                !.version = version, !.body = body,
                                !.pre = [blob |-> blob, meta |-> meta, latest |-> latest]]]
    /\ UNCHANGED <<blob, meta, latest, ceiling, countPolicy>>

\* Variant: LoadSpecError is not caught as a validation error
PutProcessUncaught(r) ==
    /\ reqs[r].pc = "process"
    /\ LET req == Step(reqs[r], "process")
           info == process(req.body)
       IN IF info.ok
          THEN reqs' = [reqs EXCEPT ![r] = [req EXCEPT !.pc = "version", !.spec_info = info]]
          ELSE Respond(r, req, 500, "storage", <<>>)
    /\ UNCHANGED <<blob, meta, latest, ceiling, countPolicy>>

\* spec_info = spec.process(...); LoadSpecError -> 400
PutProcess(r) ==
    /\ reqs[r].pc = "process"
    /\ LET req == Step(reqs[r], "process")
           info == process(req.body)
       IN IF info.ok
          THEN reqs' = [reqs EXCEPT ![r] = [req EXCEPT !.pc = "version", !.spec_info = info]]
          ELSE Respond(r, req, 400, "invalid", <<"the spec is not valid">>)
    /\ UNCHANGED <<blob, meta, latest, ceiling, countPolicy>>

\* Variant: the declared version is not compared with the derived one
PutVersionCheckSkipped(r) ==
    /\ reqs[r].pc = "version"
    /\ reqs' = [reqs EXCEPT ![r] = [Step(reqs[r], "version") EXCEPT !.pc = "quota"]]
    /\ UNCHANGED <<blob, meta, latest, ceiling, countPolicy>>

\* Variant: the blob is written before the free-tier check is made
PutVersionCheckThenBlob(r) ==
    /\ reqs[r].pc = "version"
    /\ LET req == Step(reqs[r], "version")
       IN IF req.version # req.spec_info.version
          THEN Respond(r, req, 400, "mismatch", <<req.version, req.spec_info.version>>)
          ELSE reqs' = [reqs EXCEPT ![r] = [req EXCEPT !.pc = "blob"]]
    /\ UNCHANGED <<blob, meta, latest, ceiling, countPolicy>>

\* if version != spec_info.version -> 400
PutVersionCheck(r) ==
    /\ reqs[r].pc = "version"
    /\ LET req == Step(reqs[r], "version")
       IN IF req.version # req.spec_info.version
          THEN Respond(r, req, 400, "mismatch", <<req.version, req.spec_info.version>>)
          ELSE reqs' = [reqs EXCEPT ![r] = [req EXCEPT !.pc = "quota"]]
    /\ UNCHANGED <<blob, meta, latest, ceiling, countPolicy>>

\* Variant: the result of the free-tier check is not acted on
PutQuotaCheckIgnored(r) ==
    /\ reqs[r].pc = "quota"
    /\ LET req == Step(reqs[r], "quota")
       IN \/ LET check == check_would_exceed_free_tier(req.user, req.spec_info.model_count)
                 checked == [req EXCEPT !.free_tier_check = check,
                                        !.seen = {q \in Requests : reqs[q].pc = "done"}]
             IN reqs' = [reqs EXCEPT ![r] = [checked EXCEPT !.pc = "blob"]]
          \/ Respond(r, req, 500, "database", <<>>)
    /\ UNCHANGED <<blob, meta, latest, ceiling, countPolicy>>

\* Variant: a key that is already stored is let through without the check
PutQuotaCheckExemptStored(r) ==
    /\ reqs[r].pc = "quota"
    /\ LET req == Step(reqs[r], "quota")
       IN \/ LET stored == <<req.user, req.spec_id, req.spec_info.version>> \in DOMAIN meta
                 check == IF stored THEN NoCheck
                          ELSE check_would_exceed_free_tier(req.user, req.spec_info.model_count)
                 checked == [req EXCEPT !.free_tier_check = check,
                                        !.seen = {q \in Requests : reqs[q].pc = "done"}]
             IN IF check.result
                THEN Respond(r, checked, 402, "quota", check.reason)
                ELSE reqs' = [reqs EXCEPT ![r] = [checked EXCEPT !.pc = "blob"]]
          \/ Respond(r, req, 500, "database", <<>>)
    /\ UNCHANGED <<blob, meta, latest, ceiling, countPolicy>>

\* free_tier_check = check_would_exceed_free_tier(...); result -> 402
PutQuotaCheck(r) ==
    /\ reqs[r].pc = "quota"
    /\ LET req == Step(reqs[r], "quota")
       IN \/ LET check == check_would_exceed_free_tier(req.user, req.spec_info.model_count)
                 checked == [req EXCEPT !.free_tier_check = check,
                                        !.seen = {q \in Requests : reqs[q].pc = "done"}]
             IN IF check.result
                THEN Respond(r, checked, 402, "quota", check.reason)
                ELSE reqs' = [reqs EXCEPT ![r] = [checked EXCEPT !.pc = "blob"]]
          \/ Respond(r, req, 500, "database", <<>>)
    /\ UNCHANGED <<blob, meta, latest, ceiling, countPolicy>>

\* Variant: the metadata is written before the blob write is attempted
PutBlobWriteMetaFirst(r) ==
    /\ reqs[r].pc = "blob"
    /\ LET req == Step(reqs[r], "blob")
       IN \/ /\ blob' = storage_create_update_spec(blob, req.user, req.spec_id,
                            req.spec_info.version, req.spec_info.spec_str)
             /\ reqs' = [reqs EXCEPT ![r] = [req EXCEPT !.pc = "meta"]]
             /\ UNCHANGED <<meta, latest>>
          \/ /\ create_update_spec(req.user, req.spec_id, req.spec_info.version,
                                   req.spec_info.model_count)
             /\ Respond(r, req, 500, "storage", <<>>)
             /\ UNCHANGED blob
    /\ UNCHANGED <<ceiling, countPolicy>>

\* Variant: a failed blob write is tried a second time
PutBlobWriteRetried(r) ==
    /\ reqs[r].pc = "blob"
    /\ LET req == Step(reqs[r], "blob")
       IN \/ /\ blob' = storage_create_update_spec(blob, req.user, req.spec_id,
                            req.spec_info.version, req.spec_info.spec_str)
             /\ reqs' = [reqs EXCEPT ![r] = [req EXCEPT !.pc = "meta"]]
          \/ /\ IF Len(req.steps) < 5
                THEN reqs' = [reqs EXCEPT ![r] = req]
                ELSE Respond(r, req, 500, "storage", <<>>)
             /\ UNCHANGED blob
    /\ UNCHANGED <<meta, latest, ceiling, countPolicy>>

\* storage create_update_spec(...); StorageError -> 500
PutBlobWrite(r) ==
    /\ reqs[r].pc = "blob"
    /\ LET req == Step(reqs[r], "blob")
       IN \/ /\ blob' = storage_create_update_spec(blob, req.user, req.spec_id,
                            req.spec_info.version, req.spec_info.spec_str)
             /\ reqs' = [reqs EXCEPT ![r] = [req EXCEPT !.pc = "meta"]]
          \/ /\ Respond(r, req, 500, "storage", <<>>)
             /\ UNCHANGED blob
    /\ UNCHANGED <<meta, latest, ceiling, countPolicy>>

\* Variant: success is reported without the metadata write
PutMetaWriteForgotten(r) ==
    /\ reqs[r].pc = "meta"
    /\ LET req == Step(reqs[r], "meta")
       IN \/ Respond(r, req, 204, "success", <<>>)
          \/ Respond(r, req, 500, "database", <<>>)
    /\ UNCHANGED <<blob, meta, latest, ceiling, countPolicy>>

\* database create_update_spec(...); DatabaseError -> 500; else 204
PutMetaWrite(r) ==
    /\ reqs[r].pc = "meta"
    /\ LET req == Step(reqs[r], "meta")
       IN \/ /\ create_update_spec(req.user, req.spec_id, req.spec_info.version,
                                   req.spec_info.model_count)
             /\ Respond(r, req, 204, "success", <<>>)
          \/ /\ Respond(r, req, 500, "database", <<>>)
             /\ UNCHANGED <<meta, latest>>
    /\ UNCHANGED <<blob, ceiling, countPolicy>>

\* ---------------------------------------------------------- specifications
Init ==
    /\ blob = <<>>
    /\ meta = <<>>
    /\ latest = <<>>
    /\ ceiling \in Ceilings
    /\ countPolicy \in CountPolicies
    /\ reqs = [r \in Requests |-> IdleRequest]

Next ==
    \E r \in Requests :
        \/ Begin(r)
        \/ PutProcess(r)
        \/ PutVersionCheck(r)
        \/ PutQuotaCheck(r)
        \/ PutBlobWrite(r)
        \/ PutMetaWrite(r)

Spec == Init /\ [][Next]_vars

\* put has no loop and every call in it returns or raises: a request that
\* has been issued keeps taking steps
SpecLive == Spec /\ WF_vars(Next)

\* Callers that wait for the response before they issue the next request
NoneInFlight == \A r \in Requests : reqs[r].pc \in {"idle", "done"}

BeginSeq(r) == NoneInFlight /\ Begin(r)

NextSeq ==
    \E r \in Requests :
        \/ BeginSeq(r)
        \/ PutProcess(r)
        \/ PutVersionCheck(r)
        \/ PutQuotaCheck(r)
        \/ PutBlobWrite(r)
        \/ PutMetaWrite(r)

SpecSeq == Init /\ [][NextSeq]_vars

\* ------------------------------------------- calls on the metadata store
\* Database.create_update_spec called on its own
DbCreateUpdateSpec(sub, id_, version, model_count) ==
    /\ create_update_spec(sub, id_, version, model_count)
    /\ UNCHANGED <<blob, ceiling, countPolicy, reqs>>

\* Database.delete_spec called on its own
DbDeleteSpec(sub, id_) ==
    /\ delete_spec(sub, id_)
    /\ UNCHANGED <<blob, ceiling, countPolicy, reqs>>

\* Database.delete_all_specs called on its own
DbDeleteAllSpecs(sub) ==
    /\ delete_all_specs(sub)
    /\ UNCHANGED <<blob, ceiling, countPolicy, reqs>>

\* Any sequence of calls on the metadata store
DbModelCounts == {1, MaxModelCount}

NextDb ==
    \E sub \in Customers, id_ \in SpecIds :
        \/ \E version \in Versions, model_count \in DbModelCounts :
              DbCreateUpdateSpec(sub, id_, version, model_count)
        \/ DbDeleteSpec(sub, id_)
        \/ DbDeleteAllSpecs(sub)

\* The ceiling plays no part in these calls
InitDb == Init /\ ceiling = MaxCeiling

SpecDb == InitDb /\ [][NextDb]_vars

\* Sequential put requests with deletes on the metadata store in between
NextAll ==
    \/ NextSeq
    \/ \E sub \in Customers, id_ \in SpecIds : DbDeleteSpec(sub, id_)
    \/ \E sub \in Customers : DbDeleteAllSpecs(sub)

SpecAll == Init /\ [][NextAll]_vars

\* ------------------------------------------------------------- properties
Stepped(r) == reqs'[r] # reqs[r]
Issued(req) == req.pc # "idle"
Key(req) == <<req.user, req.spec_id, process(req.body).version>>
Mismatched(req) ==
    Issued(req) /\ process(req.body).ok /\ req.version # process(req.body).version
Invalid(req) == Issued(req) /\ ~process(req.body).ok
StoredFor(m, sub) == {k \in DOMAIN m : k[1] = sub}

\* C1: a put whose declared version differs from the version derived from the
\* body never gets past the version check, ends with the version-mismatch
\* response (400), and no step of it changes the blob or the metadata store.
VersionMismatchLeavesNoTrace ==
    [][\A r \in Requests :
        (Stepped(r) /\ Mismatched(reqs'[r])) =>
            /\ blob' = blob /\ meta' = meta /\ latest' = latest
            /\ reqs'[r].pc \in {"process", "version", "done"}
            /\ reqs'[r].pc = "done" =>
                  (reqs'[r].status = 400 /\ reqs'[r].outcome = "mismatch")]_vars

\* C1 witness: a mismatched put has been answered 400 although the customer
\* already holds a spec and the body's models would not have fitted the quota
MismatchRejectedOverQuota ==
    \E r \in Requests :
        /\ Mismatched(reqs[r]) /\ reqs[r].pc = "done" /\ reqs[r].status = 400
        /\ StoredFor(blob, reqs[r].user) # {} /\ StoredFor(meta, reqs[r].user) # {}
        /\ count_customer_models(reqs[r].user) + reqs[r].body.model_count > ceiling

\* C2: a put whose free-tier check reports that the free tier would be exceeded
\* ends at that step with 402 and the reason of the check, and leaves the blob
\* store and the metadata store as they were.
QuotaExceededLeavesNoTrace ==
    [][\A r \in Requests :
        (Stepped(r) /\ reqs[r].pc = "quota" /\ reqs'[r].outcome # "database"
            /\ count_customer_models(reqs[r].user) + reqs[r].spec_info.model_count > ceiling) =>
            /\ blob' = blob /\ meta' = meta /\ latest' = latest
            /\ reqs'[r].pc = "done" /\ reqs'[r].status = 402
            /\ reqs'[r].free_tier_check.result
            /\ reqs'[r].text = reqs'[r].free_tier_check.reason
            /\ reqs'[r].steps = <<"process", "version", "quota">>]_vars

\* C2 witness: a put has been answered 402 with the reason of its check
QuotaRejected ==
    \E r \in Requests :
        /\ reqs[r].pc = "done" /\ reqs[r].status = 402
        /\ reqs[r].free_tier_check.result
        /\ reqs[r].text = <<ceiling, count_customer_models(reqs[r].user),
                              reqs[r].spec_info.model_count>>

\* C3: a put whose body the spec processor rejects ends right after the
\* processor with the validation-error response (400); the version check, the
\* quota check and both writes are not run and no store changes.
ValidationErrorStopsPut ==
    [][\A r \in Requests :
        (Stepped(r) /\ Invalid(reqs'[r])) =>
            /\ blob' = blob /\ meta' = meta /\ latest' = latest
            /\ reqs'[r].pc \in {"process", "done"}
            /\ reqs'[r].pc = "done" =>
                  /\ reqs'[r].status = 400 /\ reqs'[r].outcome = "invalid"
                  /\ reqs'[r].steps = <<"process">>]_vars

\* C3 witness: an invalid body has been answered 400 while the stores hold data
InvalidRejected ==
    \E r \in Requests :
        /\ Invalid(reqs[r]) /\ reqs[r].pc = "done" /\ reqs[r].status = 400
        /\ reqs[r].steps = <<"process">>
        /\ StoredFor(meta, reqs[r].user) # {}

\* C5: when the blob write of a put fails, the put ends with the storage-error
\* response (500) without having run the metadata write, and the metadata
\* store (records and latest markers) is as it was before that step.
BlobFailureLeavesMetadata ==
    [][\A r \in Requests :
        (Stepped(r) /\ reqs'[r].outcome = "storage") =>
            /\ reqs[r].pc = "blob"
            /\ reqs'[r].pc = "done" /\ reqs'[r].status = 500
            /\ meta' = meta /\ latest' = latest
            /\ reqs'[r].steps = <<"process", "version", "quota", "blob">>]_vars

\* C5 witness: a put of a key without metadata has ended with the storage error
BlobWriteFailed ==
    \E r \in Requests :
        /\ reqs[r].pc = "done" /\ reqs[r].outcome = "storage" /\ reqs[r].status = 500
        /\ Key(reqs[r]) \notin DOMAIN meta

Min(a, b) == IF a <= b THEN a ELSE b
Succeeded(req) == req.pc = "done" /\ req.status = 204

\* C4: two puts of one customer for different spec ids can both pass the
\* free-tier check; when they are the only writers of that customer that had
\* not been answered before both checks, the customer's model count ends at
\* most the smaller of their two model counts above the ceiling.
RaceOvershootBounded ==
    \A r1 \in Requests, r2 \in Requests :
        (/\ r1 < r2
         /\ Succeeded(reqs[r1]) /\ Succeeded(reqs[r2])
         /\ reqs[r1].user = reqs[r2].user
         /\ reqs[r1].spec_id # reqs[r2].spec_id
         /\ \A r3 \in Requests \ {r1, r2} :
               (Succeeded(reqs[r3]) /\ reqs[r3].user = reqs[r1].user) =>
                   (r3 \in reqs[r1].seen /\ r3 \in reqs[r2].seen))
        => count_customer_models(reqs[r1].user) - ceiling
             <= Min(reqs[r1].spec_info.model_count, reqs[r2].spec_info.model_count)

\* C4 witness: both writers passed the check before either was answered, and
\* the customer ends above the ceiling by the smaller of the two model counts
RaceOvershoot ==
    \E r1 \in Requests, r2 \in Requests :
        /\ r1 < r2
        /\ Succeeded(reqs[r1]) /\ Succeeded(reqs[r2])
        /\ reqs[r1].user = reqs[r2].user
        /\ reqs[r1].spec_id # reqs[r2].spec_id
        /\ r1 \notin reqs[r2].seen /\ r2 \notin reqs[r1].seen
        /\ reqs[r1].spec_info.model_count # reqs[r2].spec_info.model_count
        /\ count_customer_models(reqs[r1].user) - ceiling
             = Min(reqs[r1].spec_info.model_count, reqs[r2].spec_info.model_count)

\* C8: the free-tier check is true exactly when current count plus proposed
\* count is strictly above the ceiling (a sum equal to the ceiling passes); it
\* carries no reason when false and the ceiling, the current count and the
\* proposed count when true; a customer without specs counts 0.
FreeTierCheckExact ==
    \A sub \in Customers, model_count \in 0..MaxModelCount :
        \A check \in {check_would_exceed_free_tier(sub, model_count)},
           current \in {count_customer_models(sub)} :
           /\ check.result <=> (current + model_count > ceiling)
           /\ current + model_count = ceiling => ~check.result
           /\ ~check.result => check.reason = <<>>
           /\ check.result => check.reason = <<ceiling, current, model_count>>
           /\ StoredFor(meta, sub) = {} => current = 0

\* C8 witness: a put was rejected with a sum one above the ceiling on a
\* customer that holds models, and one model less would pass at the ceiling
RejectedJustAboveCeiling ==
    \E r \in Requests :
        LET current == count_customer_models(reqs[r].user)
            model_count == reqs[r].spec_info.model_count
        IN /\ reqs[r].pc = "done" /\ reqs[r].status = 402
           /\ current > 0 /\ current + model_count = ceiling + 1
           /\ reqs[r].text = <<ceiling, current, model_count>>
           /\ ~check_would_exceed_free_tier(reqs[r].user, model_count - 1).result

\* C9: for the count a customer has, a rejection under a ceiling implies the
\* rejection of every proposed count at least as large under every ceiling at
\* most as high: raising the proposal or lowering the ceiling never turns a
\* rejected write into an accepted one.
QuotaMonotone ==
    \A sub \in Customers :
        \A current \in {count_customer_models(sub)} :
            \A m1 \in 0..MaxModelCount, c1 \in 0..MaxCeiling :
                FreeTierDecision(current, m1, c1).result =>
                    \A m2 \in m1..MaxModelCount, c2 \in 0..c1 :
                        FreeTierDecision(current, m2, c2).result

\* C9 witness: a customer with stored models went through the check, and a
\* proposal accepted under the ceiling is rejected when one larger and when
\* the ceiling is one lower
AcceptedTurnsRejected ==
    \E r \in Requests, model_count \in 1..(MaxModelCount - 1) :
        LET current == count_customer_models(reqs[r].user)
        IN /\ Succeeded(reqs[r]) /\ current > 0
           /\ ~FreeTierDecision(current, model_count, ceiling).result
           /\ FreeTierDecision(current, model_count + 1, ceiling).result
           /\ FreeTierDecision(current, model_count, ceiling - 1).result

SameArgs(p, q) ==
    /\ p.user = q.user /\ p.spec_id = q.spec_id
    /\ p.version = q.version /\ p.body = q.body
LastIssued(r) == \A q \in Requests : q > r => reqs[q].pc = "idle"
Current == [blob |-> blob, meta |-> meta, latest |-> latest]
CountIn(snapshot, sub) == ModelsCounted(snapshot.meta, snapshot.latest, countPolicy, sub)
HadSpec(snapshot, sub, spec_id) ==
    \E k \in DOMAIN snapshot.meta : k[1] = sub /\ k[2] = spec_id

\* The stores a put without any fault leaves when it starts from a snapshot
\* and is let through by the checks: both upserts under the same key
FaultFreePut(snapshot, req) ==
    LET info == process(req.body)
    IN [blob |-> storage_create_update_spec(snapshot.blob, req.user, req.spec_id,
                                            info.version, info.spec_str),
        meta |-> create_update_item(snapshot.meta, req.user, req.spec_id,
                                    info.version, info.model_count),
        latest |-> update_latest(snapshot.latest, req.user, req.spec_id, info.version)]

MetaWriteFailed(req) ==
    req.pc = "done" /\ req.outcome = "database" /\ Len(req.steps) = 5

\* C6: a put whose metadata write fails after its blob write ends with the
\* database-error response (500), the blob stored and the metadata as before;
\* when the caller then repeats the same put and no store call of the retry
\* fails, the retry succeeds, both stores hold the key, and the stores are
\* those one fault-free put would have left.
RetryHealsMetadataFailure ==
    \A r \in Requests :
        MetaWriteFailed(reqs[r]) =>
            /\ reqs[r].status = 500
            /\ LastIssued(r) =>
                  /\ Key(reqs[r]) \in DOMAIN blob
                  /\ blob[Key(reqs[r])] = reqs[r].spec_info.spec_str
                  /\ meta = reqs[r].pre.meta /\ latest = reqs[r].pre.latest
            /\ \A q \in Requests :
                  (/\ q = r + 1 /\ LastIssued(q)
                   /\ reqs[q].pc = "done" /\ SameArgs(reqs[r], reqs[q])
                   /\ reqs[q].outcome \notin {"storage", "database"}) =>
                      /\ reqs[q].status = 204
                      /\ Key(reqs[q]) \in DOMAIN blob /\ Key(reqs[q]) \in DOMAIN meta
                      /\ Current = FaultFreePut(reqs[r].pre, reqs[r])

\* C6 witness: the retry of a put whose metadata write failed has succeeded
\* on a key that had no metadata before
RetrySucceeded ==
    \E r \in Requests, q \in Requests :
        /\ q = r + 1 /\ MetaWriteFailed(reqs[r]) /\ SameArgs(reqs[r], reqs[q])
        /\ Succeeded(reqs[q])
        /\ Key(reqs[r]) \notin DOMAIN reqs[q].pre.meta
        /\ Key(reqs[r]) \in DOMAIN reqs[q].pre.blob
        /\ Key(reqs[r]) \in DOMAIN meta

NewSpecCountsThenRejects ==
    \A r \in Requests :
        (Succeeded(reqs[r]) /\ ~HadSpec(reqs[r].pre, reqs[r].user, reqs[r].spec_id)) =>
            \A before \in {CountIn(reqs[r].pre, reqs[r].user)},
               added \in {reqs[r].spec_info.model_count} :
                /\ LastIssued(r) => count_customer_models(reqs[r].user) = before + added
                /\ \A q \in Requests :
                      (/\ q = r + 1 /\ reqs[q].pc = "done"
                       /\ reqs[q].user = reqs[r].user /\ reqs[q].spec_id # reqs[r].spec_id
                       /\ Len(reqs[q].steps) >= 3 /\ reqs[q].outcome # "database"
                       /\ before + added + reqs[q].spec_info.model_count > ceiling) =>
                          /\ reqs[q].status = 402
                          /\ reqs[q].text =
                                <<ceiling, before + added, reqs[q].spec_info.model_count>>
                          /\ LastIssued(q) =>
                                count_customer_models(reqs[q].user) = before + added

\* C10 witness: ceiling 5, a first spec of 3 models accepted with count 3, a
\* second spec of 3 models rejected citing 5, 3, 3, count still 3
SecondSpecRejected ==
    \E r \in Requests, q \in Requests :
        /\ q = r + 1 /\ ceiling = 5
        /\ Succeeded(reqs[r]) /\ reqs[r].pre.meta = <<>>
        /\ reqs[r].spec_info.model_count = 3
        /\ reqs[q].user = reqs[r].user /\ reqs[q].spec_id # reqs[r].spec_id
        /\ reqs[q].pc = "done" /\ reqs[q].status = 402
        /\ reqs[q].text = <<5, 3, 3>>
        /\ count_customer_models(reqs[r].user) = 3

PutStep == reqs' # reqs
Entry(req) ==
    [spec_id |-> req.spec_id, version |-> req.spec_info.version,
     model_count |-> req.spec_info.model_count]
VersionListed(req) ==
    /\ versions_list(req.spec_id, req.user, "").status = 200
    /\ req.spec_info.version \in versions_list(req.spec_id, req.user, "").body
    /\ list_spec_versions(req.user, req.spec_id).raised = ""
    /\ req.spec_info.version \in
         {i.version : i \in list_spec_versions(req.user, req.spec_id).value}
LatestListed(req) == Entry(req) \in list_specs(req.user)
WritesSpecOf(q, req) ==
    /\ Stepped(q) /\ Succeeded(reqs'[q])
    /\ reqs'[q].user = req.user /\ reqs'[q].spec_id = req.spec_id

\* C11 as stated: from the success of a put on, and as long as no delete
\* happens, its version is listed and the entry of its spec id in the
\* customer's spec list carries the version and metadata that put wrote.
ListedEntryStaysAsWritten ==
    [][\A r \in Requests :
        /\ (Stepped(r) /\ Succeeded(reqs'[r])) =>
              (VersionListed(reqs[r])' /\ LatestListed(reqs[r])')
        /\ (Succeeded(reqs[r]) /\ VersionListed(reqs[r]) /\ LatestListed(reqs[r])
              /\ PutStep) =>
              (VersionListed(reqs[r])' /\ LatestListed(reqs[r])')]_vars

\* C11 amended: when a put succeeds its version is listed and the entry of its
\* spec id carries the version and metadata it wrote; as long as no delete
\* happens the version stays listed, and the entry stays as written until
\* another put of the same spec id succeeds.
ListedAfterWrite ==
    [][\A r \in Requests :
        /\ (Stepped(r) /\ Succeeded(reqs'[r])) =>
              (VersionListed(reqs[r])' /\ LatestListed(reqs[r])')
        /\ (Succeeded(reqs[r]) /\ VersionListed(reqs[r]) /\ PutStep) =>
              VersionListed(reqs[r])'
        /\ (Succeeded(reqs[r]) /\ LatestListed(reqs[r]) /\ PutStep
              /\ ~\E q \in Requests : WritesSpecOf(q, reqs[r])) =>
              LatestListed(reqs[r])']_vars

\* C11 witness: two puts of one spec id have succeeded with different
\* versions; both versions are listed and the entry is the later put's
LaterPutReplacesEntry ==
    \E r \in Requests, q \in Requests :
        /\ r < q /\ Succeeded(reqs[r]) /\ Succeeded(reqs[q])
        /\ reqs[r].user = reqs[q].user /\ reqs[r].spec_id = reqs[q].spec_id
        /\ reqs[r].spec_info.version # reqs[q].spec_info.version
        /\ VersionListed(reqs[r]) /\ VersionListed(reqs[q])
        /\ LatestListed(reqs[q]) /\ ~LatestListed(reqs[r])

VersionsIn(m, sub, id_) == {k[3] : k \in {x \in DOMAIN m : x[1] = sub /\ x[2] = id_}}

\* C12: listing the versions of a spec id without a stored version raises
\* NotFoundError in the metadata store and is answered 404 at the endpoint,
\* getting a version that is not stored is answered 404, a storage fault is
\* answered 500, and a spec id with stored versions is listed in full.
NotFoundIsDistinct ==
    \A user \in Customers, spec_id \in SpecIds :
        /\ \A infos \in {list_spec_versions(user, spec_id)} :
              /\ infos.raised = "NotFoundError" <=> VersionsIn(meta, user, spec_id) = {}
              /\ infos.raised \in {"", "NotFoundError"}
              /\ infos.raised = "" =>
                    {i.version : i \in infos.value} = VersionsIn(meta, user, spec_id)
        /\ \A response \in {versions_list(spec_id, user, "")} :
              /\ response.status = 404 <=> VersionsIn(blob, user, spec_id) = {}
              /\ response.status \in {200, 404}
              /\ response.status = 200 => response.body = VersionsIn(blob, user, spec_id)
        /\ versions_list(spec_id, user, "StorageError").status = 500
        /\ \A version \in Versions :
              /\ \A response \in {versions_get(spec_id, version, user, "")} :
                    /\ response.status = 404 <=> <<user, spec_id, version>> \notin DOMAIN blob
                    /\ response.status \in {200, 404}
              /\ versions_get(spec_id, version, user, "StorageError").status = 500

\* C12 witness: one customer has a spec id with one version stored and the
\* other version missing, and another spec id without any version
MissingAndStored ==
    \E user \in Customers, spec_id \in SpecIds, other \in SpecIds :
        /\ VersionsIn(blob, user, spec_id) = {"v1"} /\ VersionsIn(meta, user, spec_id) = {"v1"}
        /\ versions_list(spec_id, user, "").status = 200
        /\ versions_get(spec_id, "v2", user, "").status = 404
        /\ versions_get(spec_id, "v1", user, "").status = 200
        /\ versions_list(other, user, "").status = 404
        /\ list_spec_versions(user, other).raised = "NotFoundError"
        /\ list_spec_versions(user, spec_id).raised = ""

Owned(f, sub) == [k \in {x \in DOMAIN f : x[1] = sub} |-> f[k]]
OthersUnchanged(sub) ==
    \A other \in Customers \ {sub} :
        /\ Owned(blob', other) = Owned(blob, other)
        /\ Owned(meta', other) = Owned(meta, other)
        /\ Owned(latest', other) = Owned(latest, other)
        /\ ModelsCounted(meta', latest', countPolicy, other) = count_customer_models(other)
BlobWrittenBy(req, user, spec_id, version) ==
    /\ req.user = user /\ req.spec_id = spec_id /\ req.spec_info.version = version
    /\ Len(req.steps) >= 4 /\ req.outcome # "storage"
MetaWrittenBy(req, user, spec_id, version, model_count) ==
    /\ Succeeded(req) /\ req.user = user /\ req.spec_id = spec_id
    /\ req.spec_info.version = version /\ req.spec_info.model_count = model_count
ReadsOwnOnly ==
    \A user \in Customers, spec_id \in SpecIds :
        /\ \A version \in versions_list(spec_id, user, "").body :
              \E r \in Requests : BlobWrittenBy(reqs[r], user, spec_id, version)
        /\ \A version \in Versions :
              versions_get(spec_id, version, user, "").status = 200 =>
                  \E r \in Requests :
                      /\ BlobWrittenBy(reqs[r], user, spec_id, version)
                      /\ versions_get(spec_id, version, user, "").body
                           = prepare(reqs[r].spec_info.spec_str, version)
        /\ \A i \in list_spec_versions(user, spec_id).value :
              \E r \in Requests :
                  MetaWrittenBy(reqs[r], user, spec_id, i.version, i.model_count)
        /\ \A e \in list_specs(user) :
              \E r \in Requests :
                  MetaWrittenBy(reqs[r], user, e.spec_id, e.version, e.model_count)

\* C13: every step of a put and every delete_spec and delete_all_specs of one
\* customer leaves the blob records, metadata records, latest versions and
\* model count of every other customer as they were, and the lists and gets
\* of a customer return only what puts of that customer wrote.
CustomersAreIsolated ==
    [][/\ \A r \in Requests : Stepped(r) => OthersUnchanged(reqs'[r].user)
       /\ \A sub \in Customers :
             ((\E id_ \in SpecIds : DbDeleteSpec(sub, id_)) \/ DbDeleteAllSpecs(sub))
                 => OthersUnchanged(sub)
       /\ ReadsOwnOnly']_vars

\* C13 witness: two customers have written, the specs of one were deleted
\* and the other one still lists its own
DeletedNextToOther ==
    \E r \in Requests, q \in Requests :
        /\ Succeeded(reqs[r]) /\ Succeeded(reqs[q])
        /\ reqs[r].user # reqs[q].user /\ reqs[r].spec_id = reqs[q].spec_id
        /\ list_specs(reqs[r].user) = {}
        /\ list_specs(reqs[q].user) = {Entry(reqs[q])}
        /\ versions_list(reqs[q].spec_id, reqs[q].user, "").body = {reqs[q].spec_info.version}

AbsentSpec(m, l, sub, id_) == VersionsIn(m, sub, id_) = {} /\ <<sub, id_>> \notin DOMAIN l
CountWithout(sub, id_) ==
    SumOf([k \in DOMAIN meta |-> meta[k].model_count],
          {k \in CountedKeys(meta, latest, countPolicy, sub) : k[2] # id_})

\* C14: delete_spec and delete_all_specs can be called whether or not
\* anything is stored; after them the spec id (the customer) has no item, a
\* second call changes nothing, the versions of the deleted spec id are not
\* found and the customer's count is the count of the other spec ids.
DeleteIsIdempotent ==
    [][\A sub \in Customers :
        /\ ENABLED DbDeleteAllSpecs(sub)
        /\ DbDeleteAllSpecs(sub) =>
              /\ DOMAIN Owned(meta', sub) = {} /\ DOMAIN Owned(latest', sub) = {}
              /\ delete_all(meta', sub) = meta' /\ delete_all(latest', sub) = latest'
              /\ ModelsCounted(meta', latest', countPolicy, sub) = 0
              /\ DOMAIN Owned(meta, sub) \cup DOMAIN Owned(latest, sub) = {}
                    => (meta' = meta /\ latest' = latest)
        /\ \A id_ \in SpecIds :
              /\ ENABLED DbDeleteSpec(sub, id_)
              /\ DbDeleteSpec(sub, id_) =>
                    /\ AbsentSpec(meta', latest', sub, id_)
                    /\ delete_item(meta', sub, id_) = meta'
                    /\ delete_item(latest', sub, id_) = latest'
                    /\ list_spec_versions(sub, id_)'.raised = "NotFoundError"
                    /\ ModelsCounted(meta', latest', countPolicy, sub) = CountWithout(sub, id_)
                    /\ AbsentSpec(meta, latest, sub, id_) => (meta' = meta /\ latest' = latest)
                    /\ blob' = blob]_vars

\* C14 witness: a customer put two spec ids, one was deleted, its versions
\* are not found and the count is the model count of the other one
OneSpecDeleted ==
    \E r \in Requests, q \in Requests :
        /\ Succeeded(reqs[r]) /\ Succeeded(reqs[q])
        /\ reqs[r].user = reqs[q].user /\ reqs[r].spec_id # reqs[q].spec_id
        /\ list_spec_versions(reqs[r].user, reqs[r].spec_id).raised = "NotFoundError"
        /\ list_spec_versions(reqs[q].user, reqs[q].spec_id).raised = ""
        /\ count_customer_models(reqs[q].user) = reqs[q].spec_info.model_count

\* C15: every create_update_spec makes its version the latest version of the
\* spec id, whatever versions are stored; no other call than a write or a
\* delete of that spec id changes it; get_latest_spec_version raises
\* NotFoundError exactly when the spec id has no version.
LatestIsLastWritten ==
    [][\A sub \in Customers, id_ \in SpecIds :
        /\ \A version \in Versions :
              (/\ <<sub, id_, version>> \in DOMAIN meta'
               /\ DbCreateUpdateSpec(sub, id_, version, meta'[<<sub, id_, version>>].model_count))
                  => get_latest_spec_version(sub, id_)' = [raised |-> "", value |-> version]
        /\ get_latest_spec_version(sub, id_)' # get_latest_spec_version(sub, id_) =>
              \/ \E version \in Versions, model_count \in DbModelCounts :
                    DbCreateUpdateSpec(sub, id_, version, model_count)
              \/ DbDeleteSpec(sub, id_)
              \/ DbDeleteAllSpecs(sub)
        /\ get_latest_spec_version(sub, id_)'.raised = "NotFoundError"
              <=> VersionsIn(meta', sub, id_) = {}
        /\ get_latest_spec_version(sub, id_)'.raised \in {"", "NotFoundError"}]_vars

\* C15 witness: both versions of a spec id are stored and the lower one, the
\* one written last, is the latest
OlderVersionIsLatest ==
    \E sub \in Customers, id_ \in SpecIds :
        /\ VersionsIn(meta, sub, id_) = {"v1", "v2"}
        /\ get_latest_spec_version(sub, id_) = [raised |-> "", value |-> "v1"]

PutOrder == <<"process", "version", "quota", "blob", "meta">>
IsPrefix(s, t) == Len(s) <= Len(t) /\ SubSeq(t, 1, Len(s)) = s
Ran(req, name) == \E i \in 1..Len(req.steps) : req.steps[i] = name
EarlierStepsSucceeded(req) ==
    /\ Ran(req, "version") => req.spec_info.ok
    /\ Ran(req, "quota") => req.version = req.spec_info.version
    /\ Ran(req, "blob") => (Ran(req, "quota") /\ ~req.free_tier_check.result)
    /\ Ran(req, "meta") => req.outcome # "storage"

\* C16: the steps of a put run in the order validate, version check, quota
\* check, blob write, metadata write, each only after every earlier one
\* succeeded; the blob store changes only in the blob step of a request whose
\* quota check allowed the write, the metadata store only in the metadata step
\* of a request whose blob write succeeded.
StepsInFixedOrder ==
    [][/\ \A r \in Requests :
            /\ IsPrefix(reqs'[r].steps, PutOrder)
            /\ EarlierStepsSucceeded(reqs'[r])
       /\ blob' # blob =>
            \E r \in Requests :
                /\ Stepped(r) /\ reqs[r].steps = SubSeq(PutOrder, 1, 3)
                /\ ~reqs[r].free_tier_check.result
                /\ reqs[r].pc # "done"
                /\ Key(reqs[r]) \in DOMAIN blob'
       /\ (meta' # meta \/ latest' # latest) =>
            \E r \in Requests :
                /\ Stepped(r) /\ reqs[r].steps = SubSeq(PutOrder, 1, 4)
                /\ reqs[r].pc # "done"
                /\ Key(reqs[r]) \in DOMAIN blob]_vars

\* C16 witness: one put ran all five steps and wrote both stores, another one
\* for a new key stopped at the quota check and its key is in neither store
FullPutAndStoppedPut ==
    \E r \in Requests, q \in Requests :
        /\ Succeeded(reqs[r]) /\ reqs[r].steps = PutOrder
        /\ Key(reqs[r]) \in DOMAIN blob /\ Key(reqs[r]) \in DOMAIN meta
        /\ reqs[q].outcome = "quota" /\ reqs[q].steps = SubSeq(PutOrder, 1, 3)
        /\ Key(reqs[q]) \notin DOMAIN blob /\ Key(reqs[q]) \notin DOMAIN meta

Times(req, name) == Cardinality({i \in 1..Len(req.steps) : req.steps[i] = name})
Outcomes ==
    [success |-> 204, invalid |-> 400, mismatch |-> 400, quota |-> 402,
     storage |-> 500, database |-> 500]
Ended(req) ==
    /\ req.pc = "done"
    /\ req.outcome \in DOMAIN Outcomes
    /\ req.status = Outcomes[req.outcome]
RunsEachStepOnce ==
    \A r \in Requests :
        /\ \A name \in {"process", "version", "quota", "blob", "meta"} :
              Times(reqs[r], name) <= 1
        /\ reqs[r].pc = "done" => Ended(reqs[r])
        /\ reqs[r].pc # "done" => (reqs[r].outcome = "" /\ reqs[r].status = 0)
AnsweredOnce ==
    \A r \in Requests :
        /\ reqs[r].pc = "done" => reqs'[r] = reqs[r]
        /\ Stepped(r) /\ Issued(reqs[r]) => Len(reqs'[r].steps) = Len(reqs[r].steps) + 1

MetaWriteFailedFor(k) ==
    \E r \in Requests :
        reqs[r].outcome = "database" /\ Ran(reqs[r], "meta") /\ Key(reqs[r]) = k
MetaWritePendingFor(k) ==
    \E r \in Requests : reqs[r].pc = "meta" /\ Key(reqs[r]) = k

\* C18 as stated: with puts only, every key of the metadata store is a key of
\* the blob store, and a key of the blob store is missing from the metadata
\* store only after a metadata-write failure for it.
BlobOnlyAfterMetaFailure ==
    /\ DOMAIN meta \subseteq DOMAIN blob
    /\ \A k \in DOMAIN blob \ DOMAIN meta : MetaWriteFailedFor(k)

\* C18 amended: with puts only, every key of the metadata store is a key of
\* the blob store, and a key of the blob store is missing from the metadata
\* store only after a metadata-write failure for it or while a put that wrote
\* the blob has not yet made its metadata write.
BlobOnlyAfterFailureOrInFlight ==
    /\ DOMAIN meta \subseteq DOMAIN blob
    /\ \A k \in DOMAIN blob \ DOMAIN meta : MetaWriteFailedFor(k) \/ MetaWritePendingFor(k)

\* C18 witness: one key is in the blob store only because the metadata write
\* for it failed, another only because its put is still before that write
BlobOnlyKeys ==
    \E k \in DOMAIN blob \ DOMAIN meta, j \in DOMAIN blob \ DOMAIN meta :
        /\ MetaWriteFailedFor(k) /\ ~MetaWritePendingFor(k)
        /\ MetaWritePendingFor(j) /\ ~MetaWriteFailedFor(j)

\* C19: when the puts run one after another and the stores start empty, the
\* model count of every customer is at or below the ceiling in every state,
\* whatever puts were accepted and rejected.
SequentialCountWithinCeiling ==
    \A sub \in Customers : count_customer_models(sub) <= ceiling

\* C19 witness: an accepted put took the customer exactly to the ceiling and
\* the next put of the customer was rejected by the free-tier check
AtCeilingAfterMix ==
    \E r \in Requests, q \in Requests :
        /\ q = r + 1 /\ Succeeded(reqs[r]) /\ reqs[q].user = reqs[r].user
        /\ reqs[q].pc = "done" /\ reqs[q].status = 402
        /\ count_customer_models(reqs[r].user) = ceiling

StoredAndCounted(req) ==
    /\ Key(req) \in CountedKeys(meta, latest, countPolicy, req.user)
    /\ meta[Key(req)].model_count = req.spec_info.model_count

\* C20: the quota step of a put adds the derived model count to the current
\* count also when the key it writes is already stored and counted with that
\* model count: such a re-put is answered 402 exactly when the current count
\* plus its model count exceeds the ceiling, although accepting it would
\* leave the customer's count as it is.
RePutCountedAgain ==
    [][\A r \in Requests :
        (/\ Stepped(r) /\ reqs[r].pc = "quota" /\ reqs'[r].outcome # "database"
         /\ StoredAndCounted(reqs[r])) =>
            /\ reqs'[r].status = 402
                  <=> count_customer_models(reqs[r].user) + reqs[r].spec_info.model_count
                        > ceiling
            /\ reqs'[r].status = 402 =>
                  /\ reqs'[r].pc = "done"
                  /\ reqs'[r].text = <<ceiling, count_customer_models(reqs[r].user),
                                       reqs[r].spec_info.model_count>>
            /\ reqs'[r].status # 402 => reqs'[r].pc = "blob"
            /\ CountIn(FaultFreePut(Current, reqs[r]), reqs[r].user)
                  = count_customer_models(reqs[r].user)]_vars

\* C20 witness: a put was accepted within the ceiling and the same put made
\* again was rejected as exceeding the free tier, with the stores untouched
RePutRejected ==
    \E r \in Requests, q \in Requests :
        /\ q = r + 1 /\ Succeeded(reqs[r]) /\ SameArgs(reqs[r], reqs[q])
        /\ StoredAndCounted(reqs[q])
        /\ reqs[q].pc = "done" /\ reqs[q].status = 402
        /\ count_customer_models(reqs[q].user) <= ceiling
        /\ Current = FaultFreePut(reqs[r].pre, reqs[r])

====
